---- MODULE Spec2Model ----
(***************************************************************************)
(* The conversation store of the contract drafting front end (ChatContext) *)
(* together with the views that drive it: the initial chat, the section    *)
(* structure editor and the draft chat.  A handler that awaits the /chat   *)
(* request is two steps: the call (up to the await) and the completion     *)
(* (the code after the await, run with the values the call captured).      *)
(* Texts are tuples of strings, one string per character or token.         *)
(***************************************************************************)
EXTENDS Integers, Sequences, FiniteSets, Bags, TLC

VARIABLES
  messages,                      \* transcript of the initial chat
  draftMessages,                 \* transcript of the draft chat
  drafts,                        \* DraftRegistry: section heading -> text
  input,                         \* the shared input box
  initialChatStep,               \* the workflow stage
  contractSections,              \* the section list under review
  session_id,
  selectedTitle,
  rephrasedIdea,
  activeSection,
  isReviewedSectionDraftActive,
  isDraftingComplete,
  userContext,
  loading,
  inflight,                      \* /chat requests awaiting their reply
  calls,                         \* handler calls that passed their guard
  edits,                         \* structure edits made so far
  last,                          \* the step just taken (observer)
  exportEntries,                 \* Object.entries(drafts) as the export reads it
  finalContract,                 \* FileUploadSection: the generated contract
  download,                      \* what the last download action produced
  upload,                        \* FileUploadSection: the rest of its state
  workflow                       \* useIdeaWorkflow: the hook's state

vars == << messages, draftMessages, drafts, input, initialChatStep,
           contractSections, session_id, selectedTitle, rephrasedIdea,
           activeSection, isReviewedSectionDraftActive, isDraftingComplete,
           userContext, loading, inflight, calls, edits, last,
           exportEntries, finalContract, download, upload, workflow >>

\* ------------------------------------------------------------------ bounds

MaxCalls == 3

MaxEdits == 1

\* the export's inputs: entries per map, characters per body and per title
MaxEntries == 2

MaxBody == 3

MaxTitle == 2

\* ------------------------------------------------------------------- texts

Empty == << >>

IsSpace(c) == c \in { " ", "\n" }

RECURSIVE TrimStart(_)
TrimStart(s) ==
  IF s = << >> THEN << >>
  ELSE IF IsSpace(Head(s)) THEN TrimStart(Tail(s)) ELSE s

RECURSIVE TrimEnd(_)
TrimEnd(s) ==
  IF s = << >> THEN << >>
  ELSE IF IsSpace(s[Len(s)]) THEN TrimEnd(SubSeq(s, 1, Len(s) - 1)) ELSE s

\* String.prototype.trim
Trim(s) == TrimEnd(TrimStart(s))

\* what the user can type into the input box
TypedInputs == { << " " >>, << "a" >> }

\* ------------------------------------------------------------------- turns

Turn(role, content, reason, section, subsection) ==
  [ role |-> role, content |-> content, reason |-> reason,
    section |-> section, subsection |-> subsection ]

UserMessage(text) == Turn("user", text, Empty, "", "")

QuestionMessage(res) ==
  Turn("assistant", res.question, res.reason, res.section, res.subsection)

\* handleSend's catch: the wording depends on the error's message
UserErrorMessage(failure) ==
  CASE failure = "network" -> << "Network connection error." >>
    [] failure = "empty"   -> << "The server returned an empty response." >>
    [] failure = "http"    -> << "Server connection error." >>
    [] OTHER               -> << "I apologize, but I encountered an error." >>

SendErrorMessage(failure) ==
  Turn("assistant", UserErrorMessage(failure), Empty, "", "")

DraftErrorMessage ==
  Turn("assistant", << "I apologize, but I encountered an error." >>, Empty, "", "")

DraftQuestionMessage(res) ==
  Turn("assistant", res.question, res.reason, "", "")

CompletedMessage ==
  Turn("assistant", << "We have completed all the sections." >>, Empty, "", "")

CheckDraftMessage(section) ==
  Turn("assistant", << "Please check the ", section, " section draft." >>, Empty, "", "")

ReviewChangesMessage ==
  Turn("assistant", << "Please reply with the changes you want to make." >>, Empty, "", "")

PlaceholderDraft == << "Currently we have not completed this section." >>

\* ---------------------------------------------------------------- sections

Sub(h, d) == [ subsection_heading |-> h, subsection_definition |-> d ]

Section(h, p, subs) ==
  [ section_heading |-> h, section_purpose |-> p, subsections |-> subs ]

SectionA == Section("A", << "pa" >>, << Sub("a1", << "da1" >>), Sub("a2", << "da2" >>) >>)

SectionB == Section("B", << "pb" >>, << Sub("b1", << "db1" >>) >>)

\* the values a structure edit can type into a field
EditHeadings == { "X" }

EditTexts == { << "x" >> }

Headings(sections) == { sections[i].section_heading : i \in 1..Len(sections) }

RemoveAt(s, i) == SubSeq(s, 1, i - 1) \o SubSeq(s, i + 1, Len(s))

\* the effect on [contractSections]: a placeholder draft per heading
PlaceholderEffect(sections, d) ==
  [ h \in DOMAIN d \cup Headings(sections) |->
      IF h \in Headings(sections) THEN PlaceholderDraft ELSE d[h] ]

EmptyDrafts == [ h \in {} |-> Empty ]

\* ----------------------------------------------------------- agent replies

ReplySections == { "B" }

AgentDraft == << "d" >>

FinalDrafts == [ h \in { "A", "B" } |-> << "f" >> ]

NoSections == << >>

\* a decoded reply; a field the reply does not carry is empty
Payload(type, action) ==
  [ type |-> type, action |-> action,
    question |-> Empty, reason |-> Empty, section |-> "", subsection |-> "",
    session_id |-> "", all_sections |-> NoSections, title |-> Empty,
    idea |-> Empty, draft |-> Empty, has_all_drafts |-> FALSE,
    all_drafts |-> EmptyDrafts ]

InterruptQuestion ==
  [ Payload("interrupt", "get_question_response") EXCEPT
      !.question = << "q" >>, !.reason = << "r" >>,
      !.section = "A", !.subsection = "a1" ]

StructureReview(sections, sid) ==
  [ Payload("interrupt", "get_structure_review") EXCEPT
      !.session_id = sid, !.all_sections = sections,
      !.title = << "t" >>, !.idea = << "i" >> ]

\* the structure reviews the agent sends, each under its own session
StructureReviews ==
  { StructureReview(<< SectionA, SectionB >>, "s1"),
    StructureReview(<< SectionB >>, "s2") }

\* what the agent can answer to handleSend
SendPayloads ==
  { InterruptQuestion, Payload("end", ""), Payload("interrupt", "unknown_action") }
  \cup StructureReviews

DraftQuestion(section, draft) ==
  [ Payload("interrupt", "get_question_response") EXCEPT
      !.question = << "q" >>, !.reason = << "r" >>,
      !.section = section, !.draft = draft ]

ReviewedSectionDraft(section) ==
  [ Payload("interrupt", "get_reviewed_section_draft") EXCEPT
      !.section = section, !.draft = AgentDraft ]

ReviewChanges(section) ==
  [ Payload("interrupt", "get_review_changes") EXCEPT !.section = section ]

GenerateDocument ==
  [ Payload("end", "generate_document") EXCEPT
      !.has_all_drafts = TRUE, !.all_drafts = FinalDrafts ]

\* what the agent can answer to handleDraftChat
DraftPayloads ==
  { GenerateDocument, Payload("end", "generate_document"),
    Payload("interrupt", "unknown_action") }
  \cup { DraftQuestion(s, d) : s \in ReplySections, d \in { Empty, AgentDraft } }
  \cup { ReviewedSectionDraft(s) : s \in ReplySections }
  \cup { ReviewChanges(s) : s \in ReplySections }

\* how chatWithDraftAgent can throw: fetch rejects, status not ok, no data event
Failures == { "network", "http", "empty" }

\* the string chatWithDraftAgent returns: the first data event, which may
\* itself start with "data: ", and which is JSON text or not
Raw(prefixed, json, value) ==
  [ prefixed |-> prefixed, json |-> json, value |-> value ]

RawReplies(payloads) ==
  { Raw(p, TRUE, v) : p \in BOOLEAN, v \in payloads }
  \cup { Raw(p, FALSE, Payload("", "")) : p \in BOOLEAN }

StripPrefix(raw) == [ raw EXCEPT !.prefixed = FALSE ]

\* JSON.parse of the text without its prefix: the value, or a throw
JsonParse(raw) ==
  IF raw.json /\ ~raw.prefixed
    THEN [ ok |-> TRUE, res |-> raw.value ]
    ELSE [ ok |-> FALSE, res |-> Payload("", "") ]

\* the handlers' parse step
Decode(raw) ==
  IF raw.prefixed THEN JsonParse(StripPrefix(raw)) ELSE JsonParse(raw)

\* ---------------------------------------------------------------- requests

Request(fn, stage, updated, d, section, sid, query, interrupt) ==
  [ fn |-> fn, stage |-> stage, updatedMessages |-> updated, drafts |-> d,
    activeSection |-> section, session_id |-> sid, query |-> query,
    is_interrupt |-> interrupt ]

NoRequest == Request("none", "", << >>, EmptyDrafts, "", "", Empty, FALSE)

\* the step just taken: the operation, the reply it handled or how it ended,
\* and the stage its call captured
Step(op, reply, req) == [ op |-> op, reply |-> reply, stage |-> req.stage ]

\* drafts[activeSection], and the default "" of the query parameter
DraftOf(d, section) == IF section \in DOMAIN d THEN d[section] ELSE Empty

\* a write that keeps only the entry written
SetDraftAlone(d, h, text) == [ k \in { h } |-> text ]

SetDraft(d, h, text) ==
  [ k \in DOMAIN d \cup { h } |-> IF k = h THEN text ELSE d[k] ]

\* -------------------------------------------------------------------- views

\* AppContent: the login page is shown until userContext is set
Authenticated == userContext # "none"

\* AppContent.renderCurrentView
InitialChatShown == Authenticated /\ initialChatStep # "done"

DraftChatShown == Authenticated /\ initialChatStep = "done"

\* GoldenPurpleChat renders ContractSectionsDisplay
\* a guard that forgets the section list
SectionsShownWithoutSections == InitialChatShown /\ Len(messages) > 0

SectionsShown ==
  InitialChatShown /\ Len(messages) > 0 /\ Len(contractSections) > 0

\* -------------------------------------------------------------- DOCX export

\* the texts of at most n characters
Texts(chars, n) == UNION { [1..k -> chars] : k \in 0..n }

\* a letter and the newline, which is also the whitespace of a blank body
BodyChars == { "a", "\n" }

TitleChars == { "N", " ", "!" }

\* [a-zA-Z0-9] among the characters typed here
Alphanumerics == { "a", "N", "c" }

Bodies == Texts(BodyChars, MaxBody)

Titles == Texts(TitleChars, MaxTitle)

ExportHeadings == { "A", "B" }

\* one [heading, body] pair of Object.entries, or one element of sections
Entry(h, body) == [ heading |-> h, content |-> body ]

Entries == { Entry(h, b) : h \in ExportHeadings, b \in Bodies }

\* arrays of sections: a heading may repeat
SectionArrays == UNION { [1..k -> Entries] : k \in 0..MaxEntries }

\* Object.entries of a map: one pair per key, in insertion order
EntryLists ==
  { l \in SectionArrays :
      \A i, j \in 1..Len(l) : l[i].heading = l[j].heading => i = j }

Keys(entries) == { entries[i].heading : i \in 1..Len(entries) }

\* obj[h] = body on a map kept as its entries: a key keeps its position
PutEntry(entries, h, body) ==
  IF h \in Keys(entries)
    THEN [ i \in 1..Len(entries) |->
             IF entries[i].heading = h THEN Entry(h, body) ELSE entries[i] ]
    ELSE Append(entries, Entry(h, body))

\* the map whose entries these are
MapOf(entries) ==
  [ h \in Keys(entries) |->
      (CHOOSE e \in { entries[i] : i \in 1..Len(entries) } :
         e.heading = h).content ]

\* content.split(/\n+/).filter(Boolean): the maximal runs without a newline
RECURSIVE Chunks(_, _)
Chunks(text, run) ==
  LET done == IF run = << >> THEN << >> ELSE << run >>
  IN  IF text = << >> THEN done
      ELSE IF Head(text) = "\n" THEN done \o Chunks(Tail(text), << >>)
      ELSE Chunks(Tail(text), Append(run, Head(text)))

SplitLines(content) == Chunks(content, << >>)

HeadingBlock(title) == [ kind |-> "heading", text |-> << title >> ]

ParagraphBlock(line) == [ kind |-> "paragraph", text |-> line ]

createFormattedSection(title, content) ==
  LET lines == SplitLines(content)
  IN  << HeadingBlock(title) >>
        \o [ i \in 1..Len(lines) |-> ParagraphBlock(lines[i]) ]

\* Object.entries(drafts).flatMap(createFormattedSection)
RECURSIVE DocumentChildren(_)
DocumentChildren(entries) ==
  IF entries = << >> THEN << >>
  ELSE createFormattedSection(Head(entries).heading, Head(entries).content)
         \o DocumentChildren(Tail(entries))

\* pocTitle || "draft", then `${docName}.docx`
DocName(pocTitle) == IF pocTitle = Empty THEN << "draft" >> ELSE pocTitle

DownloadName(pocTitle) == DocName(pocTitle) \o << ".docx" >>

NoDownload == [ kind |-> "none", by |-> "", name |-> Empty, blocks |-> << >> ]

Alert(by) == [ kind |-> "alert", by |-> by, name |-> Empty, blocks |-> << >> ]

\* generateDraftsDocx: the file the link click downloads
generateDraftsDocx(entries, pocTitle, by) ==
  [ kind |-> "file", by |-> by, name |-> DownloadName(pocTitle),
    blocks |-> DocumentChildren(entries) ]

\* title.replace(/[^a-zA-Z0-9\s]/g, '')
StripUnsafe(title) ==
  SelectSeq(title, LAMBDA c : c \in Alphanumerics \/ IsSpace(c))

\* text.replace(/\s+/g, '_')
RECURSIVE UnderscoreSpaces(_)
UnderscoreSpaces(text) ==
  IF text = << >> THEN << >>
  ELSE IF IsSpace(Head(text))
    THEN IF Len(text) > 1 /\ IsSpace(text[2])
           THEN UnderscoreSpaces(Tail(text))
           ELSE << "_" >> \o UnderscoreSpaces(Tail(text))
    ELSE << Head(text) >> \o UnderscoreSpaces(Tail(text))

\* handleDownloadContract's filename, which it computes and never uses
ContractFilename(contractTitle) ==
  UnderscoreSpaces(StripUnsafe(contractTitle)) \o << "_Contract.docx" >>

\* finalContract: null, or the contract of an 'end' reply
NoContract == [ present |-> FALSE, title |-> Empty, contract_title |-> Empty,
                shape |-> "neither", entries |-> << >> ]

Contract(title, contract_title, shape, entries) ==
  [ present |-> TRUE, title |-> title, contract_title |-> contract_title,
    shape |-> shape, entries |-> entries ]

Contracts ==
  { Contract(t[1], t[2], "sections", l) :
      t \in (Titles \X { Empty }) \cup { << Empty, << "c" >> >> },
      l \in SectionArrays }
  \cup { Contract(t[1], t[2], "drafts", l) :
      t \in (Titles \X { Empty }) \cup { << Empty, << "c" >> >> },
      l \in EntryLists }
  \cup { Contract(t, Empty, "neither", << >>) : t \in Titles }

\* finalContract.title || finalContract.contract_title || 'Generated Contract'
ContractTitle(fc) ==
  IF fc.title # Empty THEN fc.title
  ELSE IF fc.contract_title # Empty THEN fc.contract_title
  ELSE << "Generated Contract" >>

\* the sections a forEach of handleDownloadContract takes
Taken(section) == section.heading # "" /\ section.content # Empty

\* `## ${heading}\n\n${content}\n\n` for each section taken
RECURSIVE FormattedContent(_, _)
FormattedContent(fc, entries) ==
  IF entries = << >> THEN << >>
  ELSE (IF fc.shape = "drafts" \/ Taken(Head(entries))
          THEN << "#", "#", " ", Head(entries).heading, "\n", "\n" >>
                 \o Head(entries).content \o << "\n", "\n" >>
          ELSE << >>)
         \o FormattedContent(fc, Tail(entries))

\* contractDrafts: the map handed to generateDraftsDocx, as its entries
RECURSIVE ContractDrafts(_, _, _)
ContractDrafts(fc, entries, acc) ==
  IF fc.shape = "drafts" THEN entries
  ELSE IF entries = << >> THEN acc
  ELSE ContractDrafts(fc, Tail(entries),
         IF Taken(Head(entries))
           THEN PutEntry(acc, Head(entries).heading, Head(entries).content)
           ELSE acc)

\* -------------------------------------------------------- FileUploadSection

\* requests of the upload flow that may be pending together
MaxPending == 2

\* the texts setError is given
DetailText == << "detail" >>

GenerateFailed == << "Contract generation failed" >>

SubmitFailed == << "Failed to submit missing data" >>

SubmitPrefix == << "Failed to submit missing data: " >>

FinalFailed == << "Failed to generate final contract" >>

FinalPrefix == << "Failed to generate final contract: " >>

Unexpected == << "Unexpected response from server" >>

FetchFailed == << "Failed to fetch" >>

InvalidFileType == << "Invalid file type. Allowed types: " >>

\* what the user may type into the additional information box
InfoTexts == { Empty, << " " >>, << "t" >> }

\* uploadResult: null, or the reply of generate-contract-with-questions
NoResult == [ present |-> FALSE, session_id |-> "", missing_data |-> << >>,
              missing_data_count |-> 0 ]

GenerateResult(sid, missing) ==
  [ present |-> TRUE, session_id |-> sid, missing_data |-> missing,
    missing_data_count |-> Len(missing) ]

GenerateResults ==
  { GenerateResult(sid, missing) :
      sid \in { "u1", "" }, missing \in { << >>, << "f" >> } }

\* the component's state next to finalContract
UploadState(sid, missing, generated, error, uploading, busy, result, pending) ==
  [ contentFile |-> FALSE, additionalInfo |-> Empty,
    sessionId |-> sid, missingFields |-> missing,
    contractGenerated |-> generated, error |-> error,
    uploading |-> uploading, isProcessing |-> busy,
    uploadResult |-> result, pending |-> pending ]

NoUpload ==
  UploadState("", << >>, FALSE, Empty, FALSE, FALSE, NoResult, EmptyBag)

\* the component once a contract was generated for an analysis of session u1
GeneratedUpload ==
  UploadState("u1", << >>, TRUE, Empty, FALSE, FALSE,
              GenerateResult("u1", << >>), EmptyBag)

\* a pending fetch of the upload flow
Fetch(route, sid) == [ route |-> route, session_id |-> sid ]

\* how a fetch of the upload flow ends other than with 2xx: a status with a
\* body that has a detail, one without, or no response at all
UploadFailures == { "detail", "no_detail", "network" }

\* errorData.detail of a non-2xx reply
ErrorDetail(failure) == IF failure = "detail" THEN DetailText ELSE Empty

\* the 2xx replies of submit-all-missing-data and get-next-question: type
\* 'end' with or without final_contract, or another type
EndContract == Contract(<< "N" >>, Empty, "drafts", << Entry("A", << "a" >>) >>)

BareEnd == Contract(Empty, Empty, "neither", << >>)

EndReplies ==
  { [ type |-> "end", contract |-> EndContract ],
    [ type |-> "end", contract |-> BareEnd ],
    [ type |-> "interrupt", contract |-> NoContract ] }

\* resetProcess, on the state a handler has reached so far; it also sets
\* finalContract to null
resetProcess(u) ==
  [ u EXCEPT !.sessionId = "", !.missingFields = << >>,
             !.contractGenerated = FALSE, !.uploadResult = NoResult ]

\* err.message of what each handler's try block throws
GenerateError(failure) ==
  IF failure = "network" THEN FetchFailed
  ELSE IF ErrorDetail(failure) # Empty THEN ErrorDetail(failure)
  ELSE GenerateFailed

SubmitError(failure) ==
  IF failure = "network" THEN FetchFailed
  ELSE IF ErrorDetail(failure) # Empty THEN ErrorDetail(failure)
  ELSE SubmitFailed

FinalError(failure) ==
  IF failure = "network" THEN FetchFailed ELSE FinalFailed

\* ---------------------------------------------------------- useIdeaWorkflow

\* calls of the hook that may be pending together
MaxWorkflowCalls == 2

NoProgress ==
  [ ideaSubmitted |-> FALSE, ideaApproved |-> FALSE,
    titlesGenerated |-> FALSE, titleSelected |-> FALSE ]

AllProgress ==
  [ ideaSubmitted |-> TRUE, ideaApproved |-> TRUE,
    titlesGenerated |-> TRUE, titleSelected |-> TRUE ]

\* the hook's state without the payloads it stores (the ideas, the titles
\* and the project structure), and the calls that are pending
InitialWorkflow ==
  [ currentStep |-> "initial", isLoading |-> FALSE, sessionId |-> "",
    error |-> Empty, progress |-> NoProgress, pending |-> EmptyBag ]

\* error.message of a rejected apiService call: a text, or none
ApiMessages == { << "api" >>, Empty }

\* a pending call and the state.sessionId its closure captured
Pend(fn, sid) == [ fn |-> fn, sessionId |-> sid ]

\* setState(prev => ({ ...prev, isLoading: true, error: null })) and the await
Begin(w, fn, sid) ==
  [ w EXCEPT !.isLoading = TRUE, !.error = Empty,
             !.pending = @ (+) SetToBag({ Pend(fn, sid) }) ]

\* the await ends
Settle(w, p) ==
  [ w EXCEPT !.isLoading = FALSE, !.pending = @ (-) SetToBag({ p }) ]

\* the catch blocks: error.message || fallback
Rejected(w, p, message, fallback) ==
  [ Settle(w, p) EXCEPT !.error = IF message # Empty THEN message
                                  ELSE fallback ]

\* --------------------------------------------------------------------- Init

Init ==
  /\ messages = << >>
  /\ draftMessages = << >>
  /\ drafts = EmptyDrafts
  /\ input = Empty
  /\ initialChatStep = "idea-submission"
  /\ contractSections = NoSections
  /\ session_id = ""
  /\ selectedTitle = Empty
  /\ rephrasedIdea = Empty
  /\ activeSection = ""
  /\ isReviewedSectionDraftActive = FALSE
  /\ isDraftingComplete = FALSE
  /\ userContext = "none"
  /\ loading = FALSE
  /\ inflight = EmptyBag
  /\ calls = 0
  /\ edits = 0
  /\ last = Step("init", "", NoRequest)
  /\ exportEntries = << >>
  /\ finalContract = NoContract
  /\ download = NoDownload
  /\ upload = NoUpload
  /\ workflow = InitialWorkflow

\* the conversation leaves the export, the upload view and the hook alone
ExportFrame ==
  UNCHANGED << exportEntries, finalContract, download, upload, workflow >>

\* ------------------------------------------------------ login and typing

\* LoginPage.handleLogin on a known user
Login ==
  /\ userContext = "none"
  /\ ExportFrame
  /\ userContext' = "user"
  /\ last' = Step("login", "", NoRequest)
  /\ UNCHANGED << messages, draftMessages, drafts, input, initialChatStep,
                  contractSections, session_id, selectedTitle, rephrasedIdea,
                  activeSection, isReviewedSectionDraftActive,
                  isDraftingComplete, loading, inflight, calls, edits >>

\* the textarea's onChange of either chat view, setInput(e.target.value):
\* what the box can hold when a handler is called, the text typed just
\* before the call or the text left in it
BoxTexts == TypedInputs \cup { input }

\* --------------------------------------------------------------- handleSend

\* the stages in which handleSend issues a request
SendStages == { "idea-submission", "question-response" }

\* handleSend up to its await, with the box holding text
HandleSendCall(text) ==
  IF Trim(text) = Empty
    THEN /\ input' = text
         /\ last' = Step("handleSend", "returned", NoRequest)
         /\ UNCHANGED << messages, loading, inflight, calls >>
    ELSE /\ calls < MaxCalls
         /\ LET updatedMessages == Append(messages, UserMessage(text))
                req == Request("handleSend", initialChatStep, updatedMessages,
                               drafts, activeSection, session_id, text,
                               initialChatStep = "question-response")
            IN  /\ messages' = updatedMessages
                /\ input' = Empty
                /\ IF initialChatStep \in SendStages
                     THEN /\ loading' = TRUE
                          /\ inflight' = inflight (+) SetToBag({ req })
                     ELSE /\ loading' = FALSE
                          /\ inflight' = inflight
                /\ last' = Step("handleSend", "", req)
         /\ calls' = calls + 1

\* the send button or Enter of GoldenPurpleChat
HandleSend ==
  /\ InitialChatShown
  /\ ExportFrame
  /\ \E text \in BoxTexts : HandleSendCall(text)
  /\ UNCHANGED << draftMessages, drafts, initialChatStep, contractSections,
                  session_id, selectedTitle, rephrasedIdea, activeSection,
                  isReviewedSectionDraftActive, isDraftingComplete,
                  userContext, edits >>

\* handleSend's catch and finally
SendCatch(req, reason) ==
      /\ messages' = Append(req.updatedMessages, SendErrorMessage(reason))
      /\ loading' = FALSE
      /\ inflight' = inflight (-) SetToBag({ req })
      /\ last' = Step("sendReply", reason, req)
      /\ UNCHANGED << draftMessages, drafts, input, initialChatStep,
                      contractSections, session_id, selectedTitle,
                      rephrasedIdea, activeSection,
                      isReviewedSectionDraftActive, isDraftingComplete,
                      userContext, calls, edits >>

\* the stage after a get_question_response reply, by the branch taken
StageAfterQuestion(branch, stage) ==
  IF branch = "idea-submission" THEN "question-response" ELSE stage

\* the get_question_response branches of handleSend
SendQuestion(req, res) ==
  /\ messages' = Append(messages, QuestionMessage(res))
  /\ initialChatStep' = StageAfterQuestion(req.stage, initialChatStep)
  /\ UNCHANGED << drafts, contractSections, session_id, selectedTitle,
                  rephrasedIdea >>

\* the get_structure_review branches of handleSend, and the effect that
\* follows the change of contractSections
SendStructureReview(res) ==
  /\ session_id' = res.session_id
  /\ contractSections' = res.all_sections
  /\ selectedTitle' = res.title
  /\ rephrasedIdea' = res.idea
  /\ initialChatStep' = "structure-review"
  /\ drafts' = PlaceholderEffect(res.all_sections, drafts)
  /\ UNCHANGED messages

\* a reply neither branch handles: nothing but the finally
SendIgnored ==
  UNCHANGED << messages, drafts, initialChatStep, contractSections,
               session_id, selectedTitle, rephrasedIdea >>

\* handleSend after its await, on a reply that decoded
SendHandled(req, res) ==
  /\ IF res.type = "interrupt" /\ res.action = "get_question_response"
       THEN SendQuestion(req, res)
       ELSE IF res.type = "interrupt" /\ res.action = "get_structure_review"
         THEN SendStructureReview(res)
         ELSE SendIgnored
  /\ loading' = FALSE
  /\ inflight' = inflight (-) SetToBag({ req })
  /\ last' = Step("sendReply",
                  IF res.type = "interrupt" THEN res.action ELSE res.type,
                  req)
  /\ UNCHANGED << draftMessages, input, activeSection,
                  isReviewedSectionDraftActive, isDraftingComplete,
                  userContext, calls, edits >>

\* the /chat request of a handleSend call rejects
SendFails ==
  \E req \in BagToSet(inflight) :
    /\ req.fn = "handleSend"
    /\ ExportFrame
    /\ \E failure \in Failures : SendCatch(req, failure)

\* the /chat request of a handleSend call resolves
SendCompletes ==
  \E req \in BagToSet(inflight) :
    /\ req.fn = "handleSend"
    /\ ExportFrame
    /\ \E raw \in RawReplies(SendPayloads) :
         IF Decode(raw).ok
           THEN SendHandled(req, Decode(raw).res)
           ELSE SendCatch(req, "parse")

\* ---------------------------------------------------------- handleDraftChat

\* handleDraftChat's first line
DraftCallReturns(text) ==
  Trim(text) = Empty /\ activeSection # "" /\ ~isReviewedSectionDraftActive

\* whether the call records the input as a user turn
DraftCallAppends == activeSection # "" /\ ~isReviewedSectionDraftActive

\* a query that is the input whatever the review flag says
DraftCallQueryInput(text) == text

\* the query: the draft under review on the Continue path, else the input
DraftCallQuery(text) ==
  IF isReviewedSectionDraftActive THEN DraftOf(drafts, activeSection) ELSE text

\* handleDraftChat up to its await, with the box holding text; userContext
\* and initialChatStep are the caller's to set
DraftCall(op, text) ==
  IF DraftCallReturns(text)
    THEN /\ input' = text
         /\ last' = Step(op, "returned", NoRequest)
         /\ UNCHANGED << draftMessages, loading, inflight, calls >>
    ELSE /\ calls < MaxCalls
         /\ LET updatedMessages ==
                  IF DraftCallAppends
                    THEN Append(draftMessages, UserMessage(text))
                    ELSE draftMessages
                req == Request("handleDraftChat", "done", updatedMessages,
                               drafts, activeSection, session_id,
                               DraftCallQuery(text), TRUE)
            IN  /\ loading' = TRUE
                /\ draftMessages' = updatedMessages
                /\ input' = Empty
                /\ inflight' = inflight (+) SetToBag({ req })
                /\ last' = Step(op, "", req)
         /\ calls' = calls + 1

\* ChatSection: the send button, Enter, the Continue button, and the mount
\* effect when the chat panel is shown again; each is handleDraftChat()
HandleDraftChat ==
  /\ DraftChatShown
  /\ ExportFrame
  /\ \E text \in BoxTexts : DraftCall("handleDraftChat", text)
  /\ UNCHANGED << messages, drafts, initialChatStep, contractSections,
                  session_id, selectedTitle, rephrasedIdea, activeSection,
                  isReviewedSectionDraftActive, isDraftingComplete,
                  userContext, edits >>

\* the Start Drafting Contract button: the stage becomes "done", DraftChat
\* replaces the initial chat and ChatSection's mount effect calls
\* handleDraftChat
StartDrafting ==
  /\ SectionsShown
  /\ ExportFrame
  /\ initialChatStep' = "done"
  /\ \E text \in BoxTexts : DraftCall("startDrafting", text)
  /\ UNCHANGED << messages, drafts, contractSections, session_id,
                  selectedTitle, rephrasedIdea, activeSection,
                  isReviewedSectionDraftActive, isDraftingComplete,
                  userContext, edits >>

\* handleDraftChat's catch and finally
DraftCatch(req) ==
  /\ draftMessages' = Append(req.updatedMessages, DraftErrorMessage)
  /\ UNCHANGED << drafts, activeSection, isDraftingComplete >>

\* handleDraftChat's branches on the reply's action
DraftBranches(req, res) ==
  LET action == res.action
  IN  /\ activeSection' =
           IF action # "generate_document" THEN res.section ELSE activeSection
      /\ IF action = "generate_document" /\ res.has_all_drafts
           THEN /\ drafts' = res.all_drafts
                /\ isDraftingComplete' = TRUE
                /\ draftMessages' = Append(req.updatedMessages, CompletedMessage)
                /\ isReviewedSectionDraftActive' = FALSE
         ELSE IF action = "get_question_response"
           THEN /\ draftMessages' =
                     Append(req.updatedMessages, DraftQuestionMessage(res))
                /\ drafts' = IF Len(res.draft) > 0
                               THEN SetDraft(req.drafts, res.section, res.draft)
                               ELSE drafts
                /\ isReviewedSectionDraftActive' = FALSE
                /\ UNCHANGED isDraftingComplete
         ELSE IF action = "get_reviewed_section_draft"
           THEN /\ isReviewedSectionDraftActive' = TRUE
                /\ draftMessages' =
                     Append(req.updatedMessages,
                            CheckDraftMessage(req.activeSection))
                /\ drafts' = SetDraft(req.drafts, res.section, res.draft)
                /\ UNCHANGED isDraftingComplete
         ELSE IF action = "get_review_changes"
           THEN /\ draftMessages' =
                     Append(req.updatedMessages, ReviewChangesMessage)
                /\ isReviewedSectionDraftActive' = FALSE
                /\ UNCHANGED << drafts, isDraftingComplete >>
         ELSE /\ isReviewedSectionDraftActive' = FALSE
              /\ UNCHANGED << draftMessages, drafts, isDraftingComplete >>

\* a completion without the finally block
DraftDoneStillLoading(req, reply) ==
  /\ loading' = loading
  /\ inflight' = inflight (-) SetToBag({ req })
  /\ last' = Step("draftReply", reply, req)
  /\ UNCHANGED << messages, input, initialChatStep, contractSections,
                  session_id, selectedTitle, rephrasedIdea, userContext,
                  calls, edits >>

DraftDone(req, reply) ==
  /\ loading' = FALSE
  /\ inflight' = inflight (-) SetToBag({ req })
  /\ last' = Step("draftReply", reply, req)
  /\ UNCHANGED << messages, input, initialChatStep, contractSections,
                  session_id, selectedTitle, rephrasedIdea, userContext,
                  calls, edits >>

\* the /chat request of a handleDraftChat call rejects: the await throws
DraftFails ==
  \E req \in BagToSet(inflight) :
    /\ req.fn = "handleDraftChat"
    /\ ExportFrame
    /\ \E failure \in Failures :
         /\ DraftCatch(req)
         /\ UNCHANGED isReviewedSectionDraftActive
         /\ DraftDone(req, failure)

\* the /chat request of a handleDraftChat call resolves: the review flag is
\* cleared, then the text is parsed
DraftCompletes ==
  \E req \in BagToSet(inflight) :
    /\ req.fn = "handleDraftChat"
    /\ ExportFrame
    /\ \E raw \in RawReplies(DraftPayloads) :
         IF Decode(raw).ok
           THEN /\ DraftBranches(req, Decode(raw).res)
                /\ DraftDone(req, IF Decode(raw).res.action = "generate_document"
                                       /\ ~Decode(raw).res.has_all_drafts
                                    THEN "generate_document_without_drafts"
                                    ELSE Decode(raw).res.action)
           ELSE /\ DraftCatch(req)
                /\ isReviewedSectionDraftActive' = FALSE
                /\ DraftDone(req, "parse")

\* DynamicDocumentation: the textarea of a section's draft
EditDraft ==
  /\ DraftChatShown
  /\ ExportFrame
  /\ \E i \in 1..Len(contractSections), text \in EditTexts :
       /\ DraftOf(drafts, contractSections[i].section_heading) # text
       /\ drafts' = SetDraft(drafts, contractSections[i].section_heading, text)
  /\ last' = Step("editDraft", "", NoRequest)
  /\ UNCHANGED << messages, draftMessages, input, initialChatStep,
                  contractSections, session_id, selectedTitle, rephrasedIdea,
                  activeSection, isReviewedSectionDraftActive,
                  isDraftingComplete, userContext, loading, inflight, calls,
                  edits >>

\* ------------------------------------------------------------ handleNewChat

\* a handleNewChat whose setDrafts({}) is overtaken by the placeholder effect
\* of the section list it is clearing
HandleNewChatStaleEffect ==
  /\ initialChatStep' = "idea-submission"
  /\ ExportFrame
  /\ contractSections' = NoSections
  /\ session_id' = ""
  /\ selectedTitle' = Empty
  /\ messages' = << >>
  /\ draftMessages' = << >>
  /\ drafts' = PlaceholderEffect(contractSections, EmptyDrafts)
  /\ activeSection' = ""
  /\ input' = Empty
  /\ loading' = FALSE
  /\ rephrasedIdea' = Empty
  /\ isDraftingComplete' = FALSE
  /\ isReviewedSectionDraftActive' = FALSE
  /\ userContext' = "none"
  /\ last' = Step("handleNewChat", "", NoRequest)
  /\ UNCHANGED << inflight, calls, edits >>

HandleNewChat ==
  /\ initialChatStep' = "idea-submission"
  /\ ExportFrame
  /\ contractSections' = NoSections
  /\ session_id' = ""
  /\ selectedTitle' = Empty
  /\ messages' = << >>
  /\ draftMessages' = << >>
  /\ drafts' = PlaceholderEffect(NoSections, EmptyDrafts)
  /\ activeSection' = ""
  /\ input' = Empty
  /\ loading' = FALSE
  /\ rephrasedIdea' = Empty
  /\ isDraftingComplete' = FALSE
  /\ isReviewedSectionDraftActive' = FALSE
  /\ userContext' = "none"
  /\ last' = Step("handleNewChat", "", NoRequest)
  /\ UNCHANGED << inflight, calls, edits >>

\* ------------------------------------------------- ContractSectionsDisplay

\* setContractSections(next), and the effect that follows it
SetContractSections(next) ==
  /\ contractSections' = next
  /\ drafts' = PlaceholderEffect(next, drafts)

StructureFrame ==
  UNCHANGED << messages, draftMessages, input, initialChatStep, session_id,
               selectedTitle, rephrasedIdea, activeSection,
               isReviewedSectionDraftActive, isDraftingComplete, userContext,
               loading, inflight, calls, exportEntries, finalContract,
               download, upload, workflow >>

\* a guard that refuses only a section with no subsection left
DeleteSubsectionRefusedAtZero(section) == Len(section.subsections) <= 0

\* whether deleteSubsection refuses (its alert)
DeleteSubsectionRefused(section) == Len(section.subsections) <= 1

deleteSection(index) ==
  /\ SetContractSections(RemoveAt(contractSections, index))
  /\ last' = Step("deleteSection", "", NoRequest)

updateSection(index, field, value) ==
  /\ SetContractSections(
       [ contractSections EXCEPT ![index] = [ @ EXCEPT ![field] = value ] ])
  /\ last' = Step("updateSection", field, NoRequest)

deleteSubsection(sectionIndex, subsectionIndex) ==
  IF DeleteSubsectionRefused(contractSections[sectionIndex])
    THEN /\ UNCHANGED << contractSections, drafts >>
         /\ last' = Step("deleteSubsection", "refused", NoRequest)
    ELSE /\ SetContractSections(
              [ contractSections EXCEPT ![sectionIndex].subsections =
                  RemoveAt(@, subsectionIndex) ])
         /\ last' = Step("deleteSubsection", "deleted", NoRequest)

updateSubsection(sectionIndex, subsectionIndex, field, value) ==
  /\ SetContractSections(
       [ contractSections EXCEPT
           ![sectionIndex].subsections[subsectionIndex] =
             [ @ EXCEPT ![field] = value ] ])
  /\ last' = Step("updateSubsection", field, NoRequest)

\* the fields the editor's inputs write, with the values typed
SectionFieldValues ==
  { << "section_heading", h >> : h \in EditHeadings }
  \cup { << "section_purpose", t >> : t \in EditTexts }

SubsectionFieldValues ==
  { << "subsection_heading", h >> : h \in EditHeadings }
  \cup { << "subsection_definition", t >> : t \in EditTexts }

DeleteSectionClick ==
  /\ SectionsShown
  /\ \E i \in 1..Len(contractSections) : deleteSection(i)
  /\ StructureFrame

UpdateSectionChange ==
  /\ SectionsShown
  /\ \E i \in 1..Len(contractSections), fv \in SectionFieldValues :
       /\ contractSections[i][fv[1]] # fv[2]
       /\ updateSection(i, fv[1], fv[2])
  /\ StructureFrame

DeleteSubsectionClick ==
  /\ SectionsShown
  /\ \E i \in 1..Len(contractSections) :
       \E j \in 1..Len(contractSections[i].subsections) : deleteSubsection(i, j)
  /\ StructureFrame

UpdateSubsectionChange ==
  /\ SectionsShown
  /\ \E i \in 1..Len(contractSections), fv \in SubsectionFieldValues :
       \E j \in 1..Len(contractSections[i].subsections) :
         /\ contractSections[i].subsections[j][fv[1]] # fv[2]
         /\ updateSubsection(i, j, fv[1], fv[2])
  /\ StructureFrame

\* ------------------------------------------------------------ specification

\* the structure edits of one review are counted
Counted == edits < MaxEdits /\ edits' = edits + 1

Next ==
  \/ Login
  \/ HandleSend
  \/ SendFails
  \/ SendCompletes
  \/ StartDrafting
  \/ HandleDraftChat
  \/ DraftFails
  \/ DraftCompletes
  \/ EditDraft
  \/ HandleNewChat
  \/ (Counted /\ DeleteSectionClick)
  \/ (Counted /\ UpdateSectionChange)
  \/ (Counted /\ DeleteSubsectionClick)
  \/ (Counted /\ UpdateSubsectionChange)

Spec == Init /\ [][Next]_vars

\* every /chat request issued eventually resolves or rejects
RequestsSettle ==
  /\ WF_vars(SendFails \/ SendCompletes)
  /\ WF_vars(DraftFails \/ DraftCompletes)

SpecLive == Spec /\ RequestsSettle

\* The structure editor alone, from the state a first submission answered by
\* a structure review leaves: any sequence of its four operations.
InitSections ==
  \E res \in StructureReviews :
    /\ messages = << UserMessage(<< "a" >>) >>
    /\ draftMessages = << >>
    /\ drafts = PlaceholderEffect(res.all_sections, EmptyDrafts)
    /\ input = Empty
    /\ initialChatStep = "structure-review"
    /\ contractSections = res.all_sections
    /\ session_id = res.session_id
    /\ selectedTitle = res.title
    /\ rephrasedIdea = res.idea
    /\ activeSection = ""
    /\ isReviewedSectionDraftActive = FALSE
    /\ isDraftingComplete = FALSE
    /\ userContext = "user"
    /\ loading = FALSE
    /\ inflight = EmptyBag
    /\ calls = 1
    /\ edits = 0
    /\ last = Step("sendReply", "get_structure_review",
                   Request("handleSend", "idea-submission",
                           << UserMessage(<< "a" >>) >>, EmptyDrafts, "", "",
                           << "a" >>, FALSE))
    /\ exportEntries = << >>
    /\ finalContract = NoContract
    /\ download = NoDownload
    /\ upload = NoUpload
    /\ workflow = InitialWorkflow

NextSections ==
  \/ (DeleteSectionClick /\ UNCHANGED edits)
  \/ (UpdateSectionChange /\ UNCHANGED edits)
  \/ (DeleteSubsectionClick /\ UNCHANGED edits)
  \/ (UpdateSubsectionChange /\ UNCHANGED edits)

SpecSections == InitSections /\ [][NextSections]_vars

\* ------------------------------------------------------- download actions

\* what a download action leaves alone: the whole store and the contract
DownloadFrame ==
  UNCHANGED << messages, draftMessages, drafts, input, initialChatStep,
               contractSections, session_id, selectedTitle, rephrasedIdea,
               activeSection, isReviewedSectionDraftActive,
               isDraftingComplete, userContext, loading, inflight, calls,
               edits, exportEntries, finalContract, upload, workflow >>

\* the Download button of DynamicDocumentation, shown once drafting is
\* complete: generateDraftsDocx(drafts, selectedTitle)
DownloadClick ==
  /\ DraftChatShown
  /\ isDraftingComplete
  /\ download' = generateDraftsDocx(exportEntries, selectedTitle, "panel")
  /\ last' = Step("download", "", NoRequest)
  /\ DownloadFrame

\* FileUploadSection.handleDownloadContract, from its Download button
handleDownloadContract ==
  /\ Authenticated
  /\ upload.contractGenerated
  /\ finalContract.present
  /\ LET contractTitle == ContractTitle(finalContract)
         formattedContent ==
           FormattedContent(finalContract, finalContract.entries)
         contractDrafts ==
           ContractDrafts(finalContract, finalContract.entries, << >>)
     IN  download' =
           IF Trim(formattedContent) = Empty
             THEN Alert("upload")
             ELSE generateDraftsDocx(contractDrafts, contractTitle, "upload")
  /\ last' = Step("handleDownloadContract", "", NoRequest)
  /\ DownloadFrame

\* The export alone: the draft panel after drafting completed, holding any
\* registry and title, or the upload view holding any generated contract.
InitDocx ==
  /\ input = Empty
  /\ activeSection = ""
  /\ isReviewedSectionDraftActive = FALSE
  /\ userContext = "user"
  /\ loading = FALSE
  /\ inflight = EmptyBag
  /\ edits = 0
  /\ last = Step("init", "", NoRequest)
  /\ download = NoDownload
  /\ workflow = InitialWorkflow
  /\ \/ /\ \E entries \in EntryLists, title \in Titles :
             /\ exportEntries = entries
             /\ drafts = MapOf(entries)
             /\ selectedTitle = title
        /\ messages = << UserMessage(<< "a" >>) >>
        /\ draftMessages = << CompletedMessage >>
        /\ initialChatStep = "done"
        /\ contractSections = << SectionB >>
        /\ session_id = "s2"
        /\ rephrasedIdea = << "i" >>
        /\ isDraftingComplete = TRUE
        /\ calls = 2
        /\ finalContract = NoContract
        /\ upload = NoUpload
     \/ /\ finalContract \in Contracts
        /\ upload = GeneratedUpload
        /\ exportEntries = << >>
        /\ drafts = EmptyDrafts
        /\ selectedTitle = Empty
        /\ messages = << >>
        /\ draftMessages = << >>
        /\ initialChatStep = "idea-submission"
        /\ contractSections = NoSections
        /\ session_id = ""
        /\ rephrasedIdea = Empty
        /\ isDraftingComplete = FALSE
        /\ calls = 0

NextDocx ==
  \/ DownloadClick
  \/ handleDownloadContract

SpecDocx == InitDocx /\ [][NextDocx]_vars

\* ------------------------------------------------- FileUploadSection: steps

UploadFrame ==
  UNCHANGED << messages, draftMessages, drafts, input, initialChatStep,
               contractSections, session_id, selectedTitle, rephrasedIdea,
               activeSection, isReviewedSectionDraftActive,
               isDraftingComplete, userContext, loading, inflight, calls,
               edits, exportEntries, download, workflow >>

\* the Generate Contract button without its condition on sessionId
GenerateButtonAlwaysShown == TRUE

\* {!sessionId && ( ... Generate Contract ... )}
GenerateButtonShown == upload.sessionId = ""

\* disabled={uploading || (!contentFile && !additionalInfo.trim())}
GenerateButtonEnabled ==
  /\ ~ upload.uploading
  /\ upload.contentFile \/ Trim(upload.additionalInfo) # Empty

\* {uploadResult && !contractGenerated && ( ... )}
ResultShown == upload.uploadResult.present /\ ~ upload.contractGenerated

\* {missingFields.length > 0 && ( ... Submit ... )}, disabled={isProcessing}
SubmitButtonEnabled ==
  /\ ResultShown
  /\ Len(upload.missingFields) > 0
  /\ ~ upload.isProcessing

\* {uploadResult.missing_data_count === 0 && missingFields.length === 0 && (
FinalButtonShown ==
  /\ ResultShown
  /\ upload.uploadResult.missing_data_count = 0
  /\ Len(upload.missingFields) = 0

CanFetch == BagCardinality(upload.pending) < MaxPending

\* handleContentFileChange: a file with an allowed extension, or another
handleContentFileChange ==
  /\ Authenticated
  /\ \E allowed \in BOOLEAN :
       /\ upload' = [ upload EXCEPT
                        !.contentFile = allowed,
                        !.error = IF allowed THEN Empty ELSE InvalidFileType ]
       /\ last' = Step("handleContentFileChange",
                       IF allowed THEN "allowed" ELSE "invalid", NoRequest)
  /\ UNCHANGED finalContract
  /\ UploadFrame

\* the textarea's onChange
setAdditionalInfo ==
  /\ Authenticated
  /\ \E text \in InfoTexts :
       /\ text # upload.additionalInfo
       /\ upload' = [ upload EXCEPT !.additionalInfo = text ]
  /\ last' = Step("setAdditionalInfo", "", NoRequest)
  /\ UNCHANGED finalContract
  /\ UploadFrame

\* handleGenerateContract up to its await; the button is disabled while its
\* first guard would return
handleGenerateContract ==
  /\ Authenticated
  /\ GenerateButtonShown
  /\ GenerateButtonEnabled
  /\ CanFetch
  /\ upload' = [ upload EXCEPT
                   !.uploading = TRUE, !.error = Empty,
                   !.uploadResult = NoResult, !.missingFields = << >>,
                   !.contractGenerated = FALSE, !.sessionId = "",
                   !.pending = @ (+) SetToBag({ Fetch("generate", "") }) ]
  /\ finalContract' = NoContract
  /\ last' = Step("handleGenerateContract", "", NoRequest)
  /\ UploadFrame

\* generate-contract-with-questions answers 2xx
GenerateCompletes ==
  /\ BagIn(Fetch("generate", ""), upload.pending)
  /\ \E result \in GenerateResults :
       upload' = [ upload EXCEPT
                     !.uploadResult = result,
                     !.sessionId = result.session_id,
                     !.missingFields = IF Len(result.missing_data) > 0
                                       THEN result.missing_data ELSE @,
                     !.contentFile = FALSE, !.additionalInfo = Empty,
                     !.uploading = FALSE,
                     !.pending = @ (-) SetToBag({ Fetch("generate", "") }) ]
  /\ last' = Step("generateReply", "ok", NoRequest)
  /\ UNCHANGED finalContract
  /\ UploadFrame

\* generate-contract-with-questions answers non-2xx, or not at all
GenerateFails ==
  /\ BagIn(Fetch("generate", ""), upload.pending)
  /\ \E failure \in UploadFailures :
       /\ upload' = [ resetProcess(upload) EXCEPT
                        !.error = GenerateError(failure),
                        !.uploading = FALSE,
                        !.pending = @ (-) SetToBag({ Fetch("generate", "") }) ]
       /\ last' = Step("generateReply", failure, NoRequest)
  /\ finalContract' = NoContract
  /\ UploadFrame

\* handleSubmitMissingData up to its await
handleSubmitMissingData ==
  /\ Authenticated
  /\ SubmitButtonEnabled
  /\ IF upload.sessionId = "" \/ Len(upload.missingFields) = 0
     THEN /\ last' = Step("handleSubmitMissingData", "returned", NoRequest)
          /\ UNCHANGED upload
     ELSE /\ CanFetch
          /\ upload' = [ upload EXCEPT
                           !.isProcessing = TRUE,
                           !.pending = @ (+) SetToBag({
                               Fetch("submit", upload.sessionId) }) ]
          /\ last' = Step("handleSubmitMissingData", "", NoRequest)
  /\ UNCHANGED finalContract
  /\ UploadFrame

\* the 2xx branch both handlers share: type 'end' or another
EndOrUnexpected(fetch, reply) ==
  /\ IF reply.type = "end"
     THEN /\ upload' = [ upload EXCEPT
                           !.contractGenerated = TRUE,
                           !.isProcessing = FALSE,
                           !.pending = @ (-) SetToBag({ fetch }) ]
          /\ finalContract' = reply.contract
     ELSE /\ upload' = [ upload EXCEPT
                           !.error = Unexpected,
                           !.isProcessing = FALSE,
                           !.pending = @ (-) SetToBag({ fetch }) ]
          /\ UNCHANGED finalContract

\* submit-all-missing-data answers 2xx
SubmitCompletes ==
  /\ \E fetch \in BagToSet(upload.pending), reply \in EndReplies :
       /\ fetch.route = "submit"
       /\ EndOrUnexpected(fetch, reply)
       /\ last' = Step("submitReply",
                       IF reply.type = "end" THEN "end" ELSE "other",
                       NoRequest)
  /\ UploadFrame

\* submit-all-missing-data answers non-2xx, or not at all
SubmitFails ==
  /\ \E fetch \in BagToSet(upload.pending), failure \in UploadFailures :
       /\ fetch.route = "submit"
       /\ upload' = [ upload EXCEPT
                        !.error = SubmitPrefix \o SubmitError(failure),
                        !.isProcessing = FALSE,
                        !.pending = @ (-) SetToBag({ fetch }) ]
       /\ last' = Step("submitReply", failure, NoRequest)
  /\ UNCHANGED finalContract
  /\ UploadFrame

\* handleGenerateFinalContract up to its await
handleGenerateFinalContract ==
  /\ Authenticated
  /\ FinalButtonShown
  /\ IF upload.sessionId = ""
     THEN /\ last' = Step("handleGenerateFinalContract", "returned",
                          NoRequest)
          /\ UNCHANGED upload
     ELSE /\ CanFetch
          /\ upload' = [ upload EXCEPT
                           !.isProcessing = TRUE,
                           !.pending = @ (+) SetToBag({
                               Fetch("final", upload.sessionId) }) ]
          /\ last' = Step("handleGenerateFinalContract", "", NoRequest)
  /\ UNCHANGED finalContract
  /\ UploadFrame

\* get-next-question answers 2xx
FinalCompletes ==
  /\ \E fetch \in BagToSet(upload.pending), reply \in EndReplies :
       /\ fetch.route = "final"
       /\ EndOrUnexpected(fetch, reply)
       /\ last' = Step("finalReply",
                       IF reply.type = "end" THEN "end" ELSE "other",
                       NoRequest)
  /\ UploadFrame

\* get-next-question answers non-2xx, or not at all
FinalFails ==
  /\ \E fetch \in BagToSet(upload.pending), failure \in UploadFailures :
       /\ fetch.route = "final"
       /\ upload' = [ upload EXCEPT
                        !.error = FinalPrefix \o FinalError(failure),
                        !.isProcessing = FALSE,
                        !.pending = @ (-) SetToBag({ fetch }) ]
       /\ last' = Step("finalReply", failure, NoRequest)
  /\ UNCHANGED finalContract
  /\ UploadFrame

\* The upload view alone, opened by a user who is logged in.
InitUpload ==
  /\ messages = << >>
  /\ draftMessages = << >>
  /\ drafts = EmptyDrafts
  /\ input = Empty
  /\ initialChatStep = "idea-submission"
  /\ contractSections = NoSections
  /\ session_id = ""
  /\ selectedTitle = Empty
  /\ rephrasedIdea = Empty
  /\ activeSection = ""
  /\ isReviewedSectionDraftActive = FALSE
  /\ isDraftingComplete = FALSE
  /\ userContext = "user"
  /\ loading = FALSE
  /\ inflight = EmptyBag
  /\ calls = 0
  /\ edits = 0
  /\ last = Step("init", "", NoRequest)
  /\ exportEntries = << >>
  /\ finalContract = NoContract
  /\ download = NoDownload
  /\ upload = NoUpload
  /\ workflow = InitialWorkflow

NextUpload ==
  \/ handleContentFileChange
  \/ setAdditionalInfo
  \/ handleGenerateContract
  \/ GenerateCompletes
  \/ GenerateFails
  \/ handleSubmitMissingData
  \/ SubmitCompletes
  \/ SubmitFails
  \/ handleGenerateFinalContract
  \/ FinalCompletes
  \/ FinalFails

SpecUpload == InitUpload /\ [][NextUpload]_vars

\* --------------------------------------------------- useIdeaWorkflow: steps

HookFrame ==
  UNCHANGED << messages, draftMessages, drafts, input, initialChatStep,
               contractSections, session_id, selectedTitle, rephrasedIdea,
               activeSection, isReviewedSectionDraftActive,
               isDraftingComplete, userContext, loading, inflight, calls,
               edits, exportEntries, finalContract, download, upload >>

CanCall == BagCardinality(workflow.pending) < MaxWorkflowCalls

resetWorkflow ==
  /\ workflow' = [ InitialWorkflow EXCEPT !.pending = workflow.pending ]
  /\ last' = Step("resetWorkflow", "", NoRequest)
  /\ HookFrame

clearError ==
  /\ workflow.error # Empty
  /\ workflow' = [ workflow EXCEPT !.error = Empty ]
  /\ last' = Step("clearError", "", NoRequest)
  /\ HookFrame

\* submitIdea up to its await
submitIdea ==
  /\ CanCall
  /\ workflow' = Begin(workflow, "submitIdea", "")
  /\ last' = Step("submitIdea", "", NoRequest)
  /\ HookFrame

submitIdeaResolves ==
  /\ BagIn(Pend("submitIdea", ""), workflow.pending)
  /\ workflow' = [ Settle(workflow, Pend("submitIdea", "")) EXCEPT
                     !.currentStep = "submitted",
                     !.sessionId = "w1",
                     !.progress.ideaSubmitted = TRUE ]
  /\ last' = Step("submitIdea", "resolved", NoRequest)
  /\ HookFrame

submitIdeaRejects ==
  /\ BagIn(Pend("submitIdea", ""), workflow.pending)
  /\ \E message \in ApiMessages :
       workflow' = Rejected(workflow, Pend("submitIdea", ""), message,
                            << "Failed to submit idea" >>)
  /\ last' = Step("submitIdea", "rejected", NoRequest)
  /\ HookFrame

\* the guard approveIdea, generateTitles and selectTitle start with, and
\* their steps up to the await
GuardedCall(fn) ==
  IF workflow.sessionId = ""
  THEN /\ last' = Step(fn, "thrown", NoRequest)
       /\ UNCHANGED workflow
  ELSE /\ CanCall
       /\ workflow' = Begin(workflow, fn, workflow.sessionId)
       /\ last' = Step(fn, "", NoRequest)

approveIdea ==
  /\ GuardedCall("approveIdea")
  /\ HookFrame

approveIdeaResolves ==
  /\ \E p \in BagToSet(workflow.pending) :
       /\ p.fn = "approveIdea"
       /\ workflow' = [ Settle(workflow, p) EXCEPT
                          !.currentStep = "approved",
                          !.progress.ideaApproved = TRUE ]
  /\ last' = Step("approveIdea", "resolved", NoRequest)
  /\ HookFrame

approveIdeaRejects ==
  /\ \E p \in BagToSet(workflow.pending), message \in ApiMessages :
       /\ p.fn = "approveIdea"
       /\ workflow' = Rejected(workflow, p, message,
                               << "Failed to approve idea" >>)
  /\ last' = Step("approveIdea", "rejected", NoRequest)
  /\ HookFrame

generateTitles ==
  /\ GuardedCall("generateTitles")
  /\ HookFrame

generateTitlesResolves ==
  /\ \E p \in BagToSet(workflow.pending) :
       /\ p.fn = "generateTitles"
       /\ workflow' = [ Settle(workflow, p) EXCEPT
                          !.currentStep = "titles-generated",
                          !.progress.titlesGenerated = TRUE ]
  /\ last' = Step("generateTitles", "resolved", NoRequest)
  /\ HookFrame

generateTitlesRejects ==
  /\ \E p \in BagToSet(workflow.pending), message \in ApiMessages :
       /\ p.fn = "generateTitles"
       /\ workflow' = Rejected(workflow, p, message,
                               << "Failed to generate titles" >>)
  /\ last' = Step("generateTitles", "rejected", NoRequest)
  /\ HookFrame

selectTitle ==
  /\ GuardedCall("selectTitle")
  /\ HookFrame

selectTitleResolves ==
  /\ \E p \in BagToSet(workflow.pending) :
       /\ p.fn = "selectTitle"
       /\ workflow' = [ Settle(workflow, p) EXCEPT
                          !.currentStep = "completed",
                          !.progress.titleSelected = TRUE ]
  /\ last' = Step("selectTitle", "resolved", NoRequest)
  /\ HookFrame

selectTitleRejects ==
  /\ \E p \in BagToSet(workflow.pending), message \in ApiMessages :
       /\ p.fn = "selectTitle"
       /\ workflow' = Rejected(workflow, p, message,
                               << "Failed to select title" >>)
  /\ last' = Step("selectTitle", "rejected", NoRequest)
  /\ HookFrame

\* completeWorkflow up to its await
completeWorkflow ==
  /\ CanCall
  /\ workflow' = Begin(workflow, "completeWorkflow", "")
  /\ last' = Step("completeWorkflow", "", NoRequest)
  /\ HookFrame

completeWorkflowResolves ==
  /\ BagIn(Pend("completeWorkflow", ""), workflow.pending)
  /\ workflow' = [ Settle(workflow, Pend("completeWorkflow", "")) EXCEPT
                     !.currentStep = "completed",
                     !.sessionId = "w1",
                     !.progress = AllProgress ]
  /\ last' = Step("completeWorkflow", "resolved", NoRequest)
  /\ HookFrame

completeWorkflowRejects ==
  /\ BagIn(Pend("completeWorkflow", ""), workflow.pending)
  /\ \E message \in ApiMessages :
       workflow' = Rejected(workflow, Pend("completeWorkflow", ""), message,
                            << "Failed to complete workflow" >>)
  /\ last' = Step("completeWorkflow", "rejected", NoRequest)
  /\ HookFrame

\* The hook alone, in a component that has just mounted.
InitWorkflow ==
  /\ Init
  /\ workflow.currentStep = "initial"

NextWorkflow ==
  \/ resetWorkflow
  \/ clearError
  \/ submitIdea
  \/ submitIdeaResolves
  \/ submitIdeaRejects
  \/ approveIdea
  \/ approveIdeaResolves
  \/ approveIdeaRejects
  \/ generateTitles
  \/ generateTitlesResolves
  \/ generateTitlesRejects
  \/ selectTitle
  \/ selectTitleResolves
  \/ selectTitleRejects
  \/ completeWorkflow
  \/ completeWorkflowResolves
  \/ completeWorkflowRejects

SpecWorkflow == InitWorkflow /\ [][NextWorkflow]_vars

\* ------------------------------------------------------------------ claims

StageRank(stage) ==
  CASE stage = "idea-submission"   -> 0
    [] stage = "question-response" -> 1
    [] stage = "structure-review"  -> 2
    [] stage = "done"              -> 3

IsPrefix(s, t) == Len(s) <= Len(t) /\ SubSeq(t, 1, Len(s)) = s

Outstanding == BagCardinality(inflight)

IsErrorTurn(turn) ==
  /\ turn.role = "assistant"
  /\ \/ turn = DraftErrorMessage
     \/ \E reason \in Failures \cup { "parse" } : turn = SendErrorMessage(reason)

\* C1: initialChatStep never moves to an earlier stage in the order
\* idea-submission < question-response < structure-review < done, whatever
\* the submissions and the order of the replies; only handleNewChat goes back.
C1_StageNeverMovesBack ==
  [][ \/ StageRank(initialChatStep') >= StageRank(initialChatStep)
      \/ last'.op = "handleNewChat" ]_vars

\* C2: at most one /chat request of handleSend or handleDraftChat is
\* outstanding at any time.
C2_SingleFlight == Outstanding <= 1

\* C3: a get_question_response reply to handleSend appends exactly one
\* assistant turn carrying question, reason, section and subsection, leaves
\* the stage at question-response and leaves contractSections unchanged; a
\* get_structure_review reply sets the stage to structure-review, replaces
\* contractSections by the reply's list and appends no turn.
C3_SendReplies ==
  [][ /\ (last'.op = "sendReply" /\ last'.reply = "get_question_response")
           => /\ messages' = Append(messages, QuestionMessage(InterruptQuestion))
              /\ initialChatStep' = "question-response"
              /\ contractSections' = contractSections
      /\ (last'.op = "sendReply" /\ last'.reply = "get_structure_review")
           => /\ initialChatStep' = "structure-review"
              /\ \E res \in StructureReviews :
                   contractSections' = res.all_sections
              /\ messages' = messages ]_vars

\* C4: once isDraftingComplete is true, no handler call and no reply changes
\* the stage or clears the flag; only handleNewChat does.
C4_TerminalAbsorbing ==
  [][ (isDraftingComplete /\ last'.op # "handleNewChat")
        => /\ initialChatStep' = initialChatStep
           /\ isDraftingComplete' ]_vars

\* C5: when the /chat request of a call fails in transport, the call ends
\* with the stage it started with, with exactly one assistant error turn
\* appended to its transcript and with loading false.
C5_TransportFailure ==
  [][ (last'.op \in { "sendReply", "draftReply" } /\ last'.reply \in Failures)
        => /\ initialChatStep' = last'.stage
           /\ IF last'.op = "sendReply"
                THEN /\ messages' = Append(messages, messages'[Len(messages')])
                     /\ IsErrorTurn(messages'[Len(messages')])
                     /\ draftMessages' = draftMessages
                ELSE /\ draftMessages' =
                          Append(draftMessages, draftMessages'[Len(draftMessages')])
                     /\ IsErrorTurn(draftMessages'[Len(draftMessages')])
                     /\ messages' = messages
           /\ ~loading' ]_vars

\* the replies that decode but are none of a handler's recognised variants
UnrecognisedReplies ==
  { "end", "unknown_action", "generate_document_without_drafts" }

\* C6: a decoded reply that is none of the recognised variants is surfaced
\* as an assistant error turn in the handler's transcript.
C6_UnrecognisedSurfaced ==
  [][ (last'.op \in { "sendReply", "draftReply" }
         /\ last'.reply \in UnrecognisedReplies)
        => IF last'.op = "sendReply"
             THEN /\ Len(messages') = Len(messages) + 1
                  /\ messages'[Len(messages')].role = "assistant"
             ELSE /\ Len(draftMessages') = Len(draftMessages) + 1
                  /\ draftMessages'[Len(draftMessages')].role = "assistant" ]_vars

\* C7: a reply to handleDraftChat that cannot be decoded or carries an
\* unrecognised action leaves drafts, activeSection,
\* isReviewedSectionDraftActive and isDraftingComplete as they were.
C7_MalformedNotApplied ==
  [][ (last'.op = "draftReply" /\ last'.reply \in { "parse", "unknown_action" })
        => UNCHANGED << drafts, activeSection, isReviewedSectionDraftActive,
                        isDraftingComplete >> ]_vars

\* C8: between two resets both transcripts are append-only: every step but
\* handleNewChat keeps the previous list as a prefix of the new one.
C8_AppendOnly ==
  [][ last'.op # "handleNewChat"
        => /\ IsPrefix(messages, messages')
           /\ IsPrefix(draftMessages, draftMessages') ]_vars

\* the store as handleNewChat must leave it
ResetStore ==
  /\ session_id = ""
  /\ messages = << >>
  /\ draftMessages = << >>
  /\ drafts = EmptyDrafts
  /\ contractSections = NoSections
  /\ initialChatStep = "idea-submission"
  /\ ~loading
  /\ ~isReviewedSectionDraftActive
  /\ ~isDraftingComplete

\* C9: right after handleNewChat, from whatever state it was called in,
\* session_id, both transcripts, drafts and contractSections are empty, the
\* stage is idea-submission and the three flags are false.
C9_NewChatResets == last.op = "handleNewChat" => ResetStore

\* C9's case: handleNewChat was called with a request in flight, from a
\* store that held sections and a transcript (calls were made before it).
C9_Witness ==
  /\ last.op = "handleNewChat"
  /\ Outstanding > 0
  /\ calls >= 2

SubsectionFloor(sections) ==
  \A i \in 1..Len(sections) : Len(sections[i].subsections) >= 1

\* C10: starting from sections that each have at least one subsection,
\* every structure edit leaves every section present with at least one
\* subsection; a deleteSubsection either removes one subsection of a section
\* that has two or more, or is rejected and leaves contractSections as it
\* was, and it is rejected whenever the section has exactly one subsection.
C10_SubsectionFloor ==
  [][ SubsectionFloor(contractSections)
        => /\ SubsectionFloor(contractSections')
           /\ last'.op = "deleteSubsection"
                => \/ /\ last'.reply = "refused"
                      /\ contractSections' = contractSections
                   \/ \E i \in 1..Len(contractSections) :
                        /\ Len(contractSections[i].subsections) >= 2
                        /\ \E j \in 1..Len(contractSections[i].subsections) :
                             contractSections' =
                               [contractSections EXCEPT ![i].subsections =
                                  RemoveAt(@, j)] ]_vars

\* C10's case: a deleteSubsection was refused after another one had removed
\* a subsection.
C10_Witness ==
  /\ last.op = "deleteSubsection"
  /\ last.reply = "refused"
  /\ contractSections # << SectionA, SectionB >>
  /\ Len(contractSections) = 2
  /\ \A i \in 1..2 : Len(contractSections[i].subsections) = 1

\* the map a download action exports, as its entries
Exported ==
  IF download.by = "panel" THEN exportEntries
  ELSE ContractDrafts(finalContract, finalContract.entries, << >>)

\* the title a download action hands to the export
ExportedTitle ==
  IF download.by = "panel" THEN selectedTitle ELSE ContractTitle(finalContract)

\* the pairs whose body is not blank
NonBlank(entries) == SelectSeq(entries, LAMBDA e : Trim(e.content) # Empty)

\* C11: the exported document has blocks only for the pairs whose body is
\* non-blank: in map order, one heading block and then one paragraph block
\* per chunk of the body; a pair with a blank body contributes no block.
C11_ExportSkipsBlank ==
  download.kind = "file"
    => download.blocks = DocumentChildren(NonBlank(Exported))

\* C12: the suggested filename is the title without the characters that are
\* neither alphanumeric nor a space and with each run of spaces turned into
\* one underscore, followed by .docx, and draft.docx when there is no title.
C12_SanitizedFilename ==
  download.kind = "file"
    => download.name =
         (IF ExportedTitle = Empty THEN << "draft" >>
          ELSE UnderscoreSpaces(StripUnsafe(ExportedTitle))) \o << ".docx" >>

\* C13: a download action on a map in which no heading has a non-blank body
\* produces no file and raises an alert.
C13_NothingToExport ==
  (download.kind # "none"
     /\ NonBlank(IF download.by = "panel" THEN exportEntries
                 ELSE finalContract.entries) = << >>)
    => download.kind = "alert"

\* the replies to handleDraftChat that write the draft of one section, or none
SectionReplies ==
  { "get_question_response", "get_reviewed_section_draft",
    "get_review_changes" }

\* C14: a reply to handleDraftChat that concerns one section leaves the
\* text the user typed into the draft of every other section in the registry.
C14_EditSurvivesReply ==
  [][ (last'.op = "draftReply" /\ last'.reply \in SectionReplies)
        => \A h \in DOMAIN drafts :
             (h # activeSection' /\ drafts[h] \in EditTexts)
               => (h \in DOMAIN drafts' /\ drafts'[h] = drafts[h]) ]_vars

\* C15: from structure-review onwards the keys of drafts are exactly the
\* section headings of contractSections.
C15_DraftKeysAreHeadings ==
  StageRank(initialChatStep) >= 2
    => DOMAIN drafts = Headings(contractSections)

\* C16: between two resets session_id, once non-empty, is never changed.
C16_SessionAssignedOnce ==
  [][ (session_id # "" /\ last'.op # "handleNewChat")
        => session_id' = session_id ]_vars

\* a turn that records an agent reply
IsReplyTurn(turn) == turn.role = "assistant" /\ ~IsErrorTurn(turn)

\* C17: a request issued after a reply was received (its transcript holds an
\* agent turn) carries a non-empty session id.
C17_RequestsCarrySession ==
  \A r \in BagToSet(inflight) :
    (\E i \in 1..Len(r.updatedMessages) : IsReplyTurn(r.updatedMessages[i]))
      => r.session_id # ""

\* the requests a step issues
Issued(r) == CopiesIn(r, inflight') > CopiesIn(r, inflight)

\* C18: a submission with blank input sends no request and appends no turn,
\* except handleDraftChat while isReviewedSectionDraftActive is true.
C18_BlankIsNoOp ==
  [][ /\ \A r \in BagToSet(inflight') :
           (Issued(r) /\ Trim(r.query) = Empty)
             => (r.fn = "handleDraftChat" /\ isReviewedSectionDraftActive)
      /\ last'.reply = "returned"
           => UNCHANGED << messages, draftMessages, drafts, inflight, loading,
                           initialChatStep, activeSection >> ]_vars

\* C19: a handleDraftChat call made while isReviewedSectionDraftActive is
\* true appends no user turn and sends the registry's current text of
\* activeSection; any other call that goes out with an active section
\* appends exactly one user turn, whose content is the query sent.
C19_ContinuePath ==
  [][ \A r \in BagToSet(inflight') :
        (Issued(r) /\ r.fn = "handleDraftChat")
          => IF isReviewedSectionDraftActive
               THEN /\ draftMessages' = draftMessages
                    /\ r.query = DraftOf(drafts, activeSection)
             ELSE IF activeSection # ""
               THEN /\ draftMessages' =
                         Append(draftMessages, UserMessage(r.query))
                    /\ Trim(r.query) # Empty
             ELSE TRUE ]_vars

\* C19's case: Continue was pressed after the user edited the draft under
\* review, and the request in flight carries the edited text.
C19_Witness ==
  /\ last.op = "handleDraftChat"
  /\ \E r \in BagToSet(inflight) :
       /\ r.fn = "handleDraftChat"
       /\ r.query \in EditTexts
       /\ r.query = DraftOf(drafts, activeSection)
  /\ isReviewedSectionDraftActive

\* C20: a generate_document reply that carries all_drafts leaves drafts equal
\* to that map, isDraftingComplete true and the transcript longer by exactly
\* the terminal turn.
C20_GenerateDocument ==
  [][ (last'.op = "draftReply" /\ last'.reply = "generate_document")
        => /\ drafts' = FinalDrafts
           /\ isDraftingComplete'
           /\ draftMessages' = Append(draftMessages, CompletedMessage) ]_vars

\* the headings and texts a draft write is tried with
WriteHeadings == { "A", "B", "X" }

WriteTexts == EditTexts \cup { Empty, AgentDraft }

\* C21: the draft write is an idempotent overwrite: on the current registry,
\* for every heading h and text t, writing twice gives what writing once
\* gives, the entry of h is t whether or not h was a key, and every other
\* entry is as before.
C21_IdempotentWrite ==
  \A h \in WriteHeadings, t \in WriteTexts :
    LET once == SetDraft(drafts, h, t)
    IN  /\ SetDraft(once, h, t) = once
        /\ DOMAIN once = DOMAIN drafts \cup { h }
        /\ once[h] = t
        /\ \A k \in DOMAIN drafts \ { h } : once[k] = drafts[k]

\* C21's case: the textarea has just written the user's text into a registry
\* that holds another entry and lacks one of the headings tried.
C21_Witness ==
  /\ last.op = "editDraft"
  /\ \E h \in DOMAIN drafts : drafts[h] \in EditTexts
  /\ \E k \in DOMAIN drafts : drafts[k] \notin EditTexts
  /\ WriteHeadings \ DOMAIN drafts # {}

\* C22: a drafting reply changes the registry only at the reply's section:
\* get_reviewed_section_draft writes the returned draft there,
\* get_question_response writes it there or writes nothing, and
\* get_review_changes writes nothing.
C22_ReplyWritesOneEntry ==
  [][ /\ (last'.op = "draftReply"
            /\ last'.reply = "get_reviewed_section_draft")
           => drafts' = SetDraft(drafts, activeSection', AgentDraft)
      /\ (last'.op = "draftReply" /\ last'.reply = "get_question_response")
           => \/ drafts' = drafts
              \/ drafts' = SetDraft(drafts, activeSection', AgentDraft)
      /\ (last'.op = "draftReply" /\ last'.reply = "get_review_changes")
           => drafts' = drafts ]_vars

\* C23: loading is true exactly while a /chat request is outstanding.
C23_LoadingTracksRequests == loading <=> Outstanding > 0

\* C24: userContext is cleared by logout only; no other step takes a
\* logged-in user's context away.
C24_OnlyLogoutClearsUser ==
  [][ (userContext # "none" /\ userContext' = "none")
        => last'.op = "logout" ]_vars

\* C26: a reply that arrives right after handleNewChat, for a request issued
\* before it, leaves session_id, contractSections, drafts and both
\* transcripts empty and the stage at idea-submission.
C26_LateReplyIgnored ==
  [][ (last.op = "handleNewChat"
         /\ last'.op \in { "sendReply", "draftReply" })
        => /\ session_id' = ""
           /\ contractSections' = NoSections
           /\ drafts' = EmptyDrafts
           /\ messages' = << >>
           /\ draftMessages' = << >>
           /\ initialChatStep' = "idea-submission" ]_vars

\* C27: provided every request issued settles, the store does not stay
\* pending: loading true leads to loading false, and every completion of a
\* call, whatever its reply, ends with loading false.
C27_CallsFinish ==
  /\ loading ~> ~loading
  /\ [][ last'.op \in { "sendReply", "draftReply" } => ~loading' ]_vars

\* C27's case: a call whose reply could not be decoded has finished and
\* nothing is pending.
C27_Witness ==
  /\ last.op = "draftReply"
  /\ last.reply = "parse"
  /\ ~loading
  /\ Outstanding = 0

\* C28: in the drafting view the section list is never empty.
C28_DraftingHasSections ==
  initialChatStep = "done" => Len(contractSections) > 0

\* C28's case: a reply to handleSend arrived after drafting had started and
\* the store is still in the drafting view.
C28_Witness ==
  /\ initialChatStep = "done"
  /\ last.op = "sendReply"
  /\ Len(contractSections) > 0

UploadReplies == { "generateReply", "submitReply", "finalReply" }

\* C25: when a request of the upload flow is answered non-2xx with a detail,
\* the error shown afterwards is exactly the detail text; when the detail is
\* absent some message is shown.
C25_DetailVerbatim ==
  [][ /\ (last'.op \in UploadReplies /\ last'.reply = "detail")
        => upload'.error = DetailText
      /\ (last'.op \in UploadReplies /\ last'.reply = "no_detail")
        => upload'.error # Empty ]_vars

EndReply == last.op \in { "submitReply", "finalReply" } /\ last.reply = "end"

OtherReply ==
  last.op \in { "submitReply", "finalReply" } /\ last.reply = "other"

\* C29: in the upload view contractGenerated is true only with a finalContract
\* and a session id; the two become set only when submit-all-missing-data or
\* get-next-question answers with type 'end'; a 2xx answer of another type
\* sets the error 'Unexpected response from server' and leaves both as they
\* were.
C29_GeneratedOnlyByEnd ==
  /\ [](upload.contractGenerated
          => finalContract.present /\ upload.sessionId # "")
  /\ [][ /\ ( \/ ~ upload.contractGenerated /\ upload'.contractGenerated
              \/ finalContract' # finalContract /\ finalContract'.present )
           => EndReply'
         /\ OtherReply'
           => /\ upload'.error = Unexpected
              /\ upload'.contractGenerated = upload.contractGenerated
              /\ finalContract' = finalContract ]_vars

\* a contract was generated by an 'end' answer while an error of an earlier
\* answer was on display
C29_Witness ==
  /\ EndReply
  /\ upload.contractGenerated
  /\ finalContract = BareEnd
  /\ upload.error = Unexpected

WorkflowRank(step) ==
  CASE step = "initial"          -> 0
    [] step = "submitted"        -> 1
    [] step = "approved"         -> 2
    [] step = "titles-generated" -> 3
    [] step = "completed"        -> 4

\* C30: apart from resetWorkflow and completeWorkflow, currentStep only moves
\* to the next step of initial, submitted, approved, titles-generated,
\* completed, and a call that throws at its guard leaves currentStep alone.
C30_StepsInOrder ==
  [][ /\ ( /\ workflow'.currentStep # workflow.currentStep
           /\ last'.op \notin { "resetWorkflow", "completeWorkflow" } )
        => WorkflowRank(workflow'.currentStep)
             = WorkflowRank(workflow.currentStep) + 1
      /\ last'.reply = "thrown"
        => workflow'.currentStep = workflow.currentStep ]_vars

====
